---- MODULE Spec2Model ----
(***************************************************************************)
(* Beam packing for MeerTRAP (beam_packer.py): get_beam_packing, the       *)
(* greedy nearest-neighbour grouping of on-sky beams, and                  *)
(* check_beam_packing, the per-group total pairwise distance.              *)
(*                                                                         *)
(* Coordinates are small naturals.  A distance np.sqrt(dx**2 + dy**2) is   *)
(* carried as the integer dx**2 + dy**2 under the root: the root is        *)
(* strictly increasing, and on these integers two different radicands      *)
(* never round to the same double, so every comparison and every tie of    *)
(* the code's `dist` is the comparison or tie of the radicands.  A float   *)
(* sum is carried as the terms in the order the code adds them.            *)
(***************************************************************************)
EXTENDS Integers, Sequences, FiniteSets, TLC

\* ---- bounds of the model
MaxBeams == 3
MaxX == 1

\* ---- defaults of get_beam_packing(beams, nbeams=396, bunch=6)
DefaultNBeams == 396
DefaultBunch == 6

VARIABLES
    beams,      \* the input record array, fields x and y
    nbeams,     \* argument nbeams
    bunch,      \* argument bunch
    data,       \* get_beam_packing: the output record array
    work,       \* get_beam_packing: the beams not yet grouped
    group,      \* get_beam_packing: the group counter
    picks,      \* what logger.debug("Group: .., beams: ..") has logged: picked["nr"] per iteration
    report,     \* check_beam_packing: the info array it returns
    pc          \* position in main(): "start", "loop", "packed", "evaluated", "error"

vars == <<beams, nbeams, bunch, data, work, group, picks, report, pc>>

\* ---- numpy helpers

Min(a, b) == IF a < b THEN a ELSE b
Max(a, b) == IF a > b THEN a ELSE b

\* field order of the two record dtypes
DataDtype == <<"nr", "x", "y", "group">>
TotDtype == <<"nr", "x", "y", "dist">>

\* lexicographic a < b on two integer sequences of one length
RECURSIVE LexLess(_, _)
LexLess(a, b) ==
    IF a = <<>> THEN FALSE
    ELSE IF Head(a) < Head(b) THEN TRUE
    ELSE IF Head(a) > Head(b) THEN FALSE
    ELSE LexLess(Tail(a), Tail(b))

\* A stable sort that compares the `order` field alone.
SortKeyStable(r, dtype, order) == <<r[order]>>

\* np.sort(a, order=f) compares field f first and breaks ties with the
\* unspecified fields, in the order in which they come up in the dtype.
SortKey(r, dtype, order) ==
    LET rest == SelectSeq(dtype, LAMBDA f : f # order)
    IN  <<r[order]>> \o [i \in 1..Len(rest) |-> r[rest[i]]]

\* r put into the sorted s, behind every element that is not greater
RECURSIVE Insert(_, _, _, _)
Insert(s, r, dtype, order) ==
    IF s = <<>> THEN <<r>>
    ELSE IF LexLess(SortKey(r, dtype, order), SortKey(Head(s), dtype, order))
         THEN <<r>> \o s
         ELSE <<Head(s)>> \o Insert(Tail(s), r, dtype, order)

\* np.sort(s, order=order) of a record array of dtype `dtype`.  Elements whose
\* keys are equal keep their relative order.
RECURSIVE NpSort(_, _, _)
NpSort(s, dtype, order) ==
    IF s = <<>> THEN <<>>
    ELSE Insert(NpSort(SubSeq(s, 1, Len(s) - 1), dtype, order), s[Len(s)], dtype, order)

\* s[0:stop - 1]: one element short.
PySliceShort(s, stop) == SubSeq(s, 1, Min(Max(stop - 1, 0), Len(s)))

\* s[0:stop], Python slicing: a negative stop counts from the end.
PySlice(s, stop) ==
    LET n == Len(s)
        e == IF stop < 0 THEN Max(n + stop, 0) ELSE Min(stop, n)
    IN  SubSeq(s, 1, e)

\* the values of field nr in a record array
Nrs(s) == {s[i].nr : i \in 1..Len(s)}

\* (a.x - b.x)**2 + (a.y - b.y)**2, the radicand of the distance a to b
Dist2(a, b) == (a.x - b.x) * (a.x - b.x) + (a.y - b.y) * (a.y - b.y)

\* ---- get_beam_packing

\* data = np.zeros(len(beams)); data["nr"] = arange; data[field] = beams[field]
InitData(b) ==
    [i \in 1..Len(b) |-> [nr |-> i - 1, x |-> b[i].x, y |-> b[i].y, group |-> 0]]

\* Cut in input order: the data is not sorted before the cut.
SortedDataUnsorted(b) == InitData(b)

\* data = np.sort(data, order="x")
SortedData(b) == NpSort(InitData(b), DataDtype, "x")

\* if len(data) >= nbeams: data = data[0:nbeams]
Truncate(d, n) == IF Len(d) >= n THEN PySlice(d, n) ELSE d

\* The anchor taken from the end of the working list.
AnchorLast(w) == w[Len(w)]

\* work[..][0], the beam the distances are measured from
Anchor(w) == w[1]

\* tot: the working list with the distance of every beam to the anchor
Tot(w) ==
    [i \in 1..Len(w) |->
        [nr |-> w[i].nr, x |-> w[i].x, y |-> w[i].y, dist |-> Dist2(w[i], Anchor(w))]]

\* The sort by distance done stably on the distance alone: beams at equal
\* distance stay in the order of the working list.
PickedStable(w, k) ==
    LET t == Tot(w)
        placed == [i \in 1..Len(t) |->
                      [place |-> i, nr |-> t[i].nr, x |-> t[i].x, y |-> t[i].y, dist |-> t[i].dist]]
    IN  PySlice(NpSort(placed, <<"place", "nr", "x", "y", "dist">>, "dist"), k)

\* One beam short of a bunch.
PickedShort(w, k) == PySliceShort(NpSort(Tot(w), TotDtype, "dist"), k)

\* tot = np.sort(tot, order="dist"); picked = tot[0:bunch]
Picked(w, k) == PySlice(NpSort(Tot(w), TotDtype, "dist"), k)

\* Removal by position: the first len(picked) beams of the working list.
MaskWorkByPosition(w, picked) == SubSeq(w, Len(picked) + 1, Len(w))

\* work = work[np.isin(work["nr"], picked["nr"], invert=True)]
MaskWork(w, picked) == SelectSeq(w, LAMBDA r : r.nr \notin Nrs(picked))

\* data["group"][np.isin(data["nr"], picked["nr"])] = group
AssignGroup(d, picked, g) ==
    [i \in 1..Len(d) |->
        IF d[i].nr \in Nrs(picked) THEN [d[i] EXCEPT !.group = g] ELSE d[i]]

\* ---- check_beam_packing

\* Only the distance from each member to the next one: a nearest-neighbour chain.
PairTermsChain(indiv) ==
    [nr \in 1..(Len(indiv) - 1) |-> <<Dist2(indiv[nr + 1], indiv[nr])>>]

\* for nr in range(len(indiv) - 1): dist = sqrt(.. indiv[nr+1:] - indiv[nr] ..);
\* value = np.sum(dist); totdist += value.  The float totdist is carried as what
\* is added: per nr the vector dist (its radicands), in the order of the loop.
\* No term at all is totdist = 0.
PairTerms(indiv) ==
    [nr \in 1..(Len(indiv) - 1) |->
        [j \in 1..(Len(indiv) - nr) |-> Dist2(indiv[nr + j], indiv[nr])]]

\* indiv = data[data["group"] == group]; indiv = np.sort(indiv, order="x")
Indiv(d, g) == NpSort(SelectSeq(d, LAMBDA r : r.group = g), DataDtype, "x")

\* np.max(data["group"]) raises ValueError on an empty array
MaxRaises(t) == Len(t) = 0

\* check_beam_packing(t_data) for a non-empty t_data: info[g] is element g + 1
CheckBeamPacking(t) ==
    LET d == NpSort(t, DataDtype, "group")
        groups == {d[i].group : i \in 1..Len(d)}
        top == CHOOSE g \in groups : \A h \in groups : h <= g
    IN  [i \in 1..(top + 1) |->
            IF (i - 1) \in groups
            THEN [group |-> i - 1, totdist |-> PairTerms(Indiv(d, i - 1))]
            ELSE [group |-> 0, totdist |-> <<>>]]

\* the records of s in the order p
Permute(s, p) == [i \in 1..Len(s) |-> s[p[i]]]

\* ---- the inputs

\* the beams lie on two rows of a grid
XCoords == 0..MaxX
YCoords == {0, 1}
Points == [x : XCoords, y : YCoords]
BeamSeqs == UNION {[1..n -> Points] : n \in 0..MaxBeams}
ArgVals == (-1)..MaxBeams
\* the loop of a call with bunch <= 0 does not end: the model follows it this far
MaxIter == MaxBeams + 2

\* six beams on a line, packed with the default arguments
ExampleA == [i \in 1..6 |-> [x |-> i - 1, y |-> 0]]

Init ==
    /\ \/ beams \in BeamSeqs /\ nbeams \in ArgVals /\ bunch \in ArgVals
       \/ beams = ExampleA /\ nbeams = DefaultNBeams /\ bunch = DefaultBunch
    /\ data = <<>>
    /\ work = <<>>
    /\ group = 0
    /\ picks = <<>>
    /\ report = <<>>
    /\ pc = "start"

\* get_beam_packing up to the loop
Start ==
    /\ pc = "start"
    /\ data' = Truncate(SortedData(beams), nbeams)
    /\ work' = data'
    /\ group' = 0
    /\ pc' = "loop"
    /\ UNCHANGED <<beams, nbeams, bunch, picks, report>>

\* one iteration of `while len(work) > 0`
Iterate ==
    /\ pc = "loop"
    /\ Len(work) > 0
    /\ group < MaxIter
    /\ LET picked == Picked(work, bunch)
       IN  /\ picks' = Append(picks, Nrs(picked))
           /\ work' = MaskWork(work, picked)
           /\ data' = AssignGroup(data, picked, group)
    /\ group' = group + 1
    /\ UNCHANGED <<beams, nbeams, bunch, report, pc>>

\* the loop ends; data = np.sort(data, order="group"); return data
Finish ==
    /\ pc = "loop"
    /\ Len(work) = 0
    /\ data' = NpSort(data, DataDtype, "group")
    /\ pc' = "packed"
    /\ UNCHANGED <<beams, nbeams, bunch, work, group, picks, report>>

\* metric = check_beam_packing(packed), the records of packed in any order
Evaluate ==
    /\ pc = "packed"
    /\ \E p \in Permutations(1..Len(data)) :
          LET t == Permute(data, p)
          IN  IF MaxRaises(t)
              THEN /\ pc' = "error"
                   /\ report' = <<>>
              ELSE /\ pc' = "evaluated"
                   /\ report' = CheckBeamPacking(t)
    /\ UNCHANGED <<beams, nbeams, bunch, data, work, group, picks>>

Next == Start \/ Iterate \/ Finish \/ Evaluate

Spec == Init /\ [][Next]_vars

\* ---- vocabulary of the properties

\* the preconditions of get_beam_packing
ValidArgs == nbeams > 0 /\ bunch > 0

\* get_beam_packing has returned
Returned == pc \in {"packed", "evaluated", "error"}

\* the beams of data that carry group g
Members(g) == {i \in 1..Len(data) : data[i].group = g}

\* the ids picked in iterations 1..k
RECURSIVE PickedUpTo(_)
PickedUpTo(k) == IF k = 0 THEN {} ELSE PickedUpTo(k - 1) \cup picks[k]

\* how many picks iterations 1..k made
RECURSIVE PickCount(_)
PickCount(k) == IF k = 0 THEN 0 ELSE PickCount(k - 1) + Cardinality(picks[k])

\* a comes before b by (x, id)
XBefore(a, b) == a.x < b.x \/ (a.x = b.x /\ a.nr < b.nr)

\* ceil(n / k) for k > 0
CeilDiv(n, k) == (n + k - 1) \div k

\* ---- C1

\* C1: once get_beam_packing has returned (nbeams > 0, bunch > 0), the group ids
\* are 0..G-1 in the order the groups were created, every group but the last has
\* exactly bunch members and the last has count mod bunch members, or bunch when
\* that remainder is 0.
C1_GroupSizing ==
    (ValidArgs /\ Returned) =>
        LET n == Len(data)
            ids == {data[i].group : i \in 1..n}
            G == Cardinality(ids)
            last == IF n % bunch = 0 THEN bunch ELSE n % bunch
        IN  /\ ids = 0..(G - 1)
            /\ G = group
            /\ \A g \in ids : {data[i].nr : i \in Members(g)} = picks[g + 1]
            /\ \A g \in ids : g < G - 1 => Cardinality(Members(g)) = bunch
            /\ G > 0 => Cardinality(Members(G - 1)) = last

\* a packing that ends with an undersized group after a full one
C1_Witness ==
    /\ ValidArgs /\ pc = "packed"
    /\ group >= 2
    /\ Len(data) % bunch # 0
    /\ Cardinality(Members(0)) = bunch

\* ---- C2

\* C2: at every step of the packing loop (nbeams > 0, bunch > 0) the picks made
\* so far are pairwise disjoint, disjoint from the working list, and together
\* with it they are the retained beams; a beam picked in iteration k carries
\* group k - 1 from then on.  On return the working list is empty, so the groups
\* partition the retained beams.
C2_Partition ==
    (ValidArgs /\ pc # "start") =>
        /\ Cardinality(Nrs(data)) = Len(data)
        /\ Cardinality(Nrs(work)) = Len(work)
        /\ \A j, k \in 1..Len(picks) : j # k => picks[j] \cap picks[k] = {}
        /\ Nrs(work) \cap PickedUpTo(Len(picks)) = {}
        /\ Nrs(work) \cup PickedUpTo(Len(picks)) = Nrs(data)
        /\ \A k \in 1..Len(picks) : \A i \in 1..Len(data) :
              data[i].nr \in picks[k] => data[i].group = k - 1
        /\ Returned => /\ work = <<>>
                       /\ \A i \in 1..Len(data) : data[i].nr \in picks[data[i].group + 1]

\* in the middle of the loop: a group made, beams still to be grouped, and the
\* group is not the front of the working list
C2_Witness ==
    /\ ValidArgs /\ pc = "loop"
    /\ Len(picks) = 1 /\ Len(work) >= 1
    /\ \E i \in 1..Len(data) : \E j \in 1..Len(work) :
          data[i].nr \in picks[1] /\ XBefore(work[j], data[i])

\* ---- C3

C4_InvalidArgument ==
    ~ValidArgs => (picks = <<>> /\ group = 0 /\ ~Returned)

\* ---- C5

\* C5: for zero input beams get_beam_packing returns an empty array after zero
\* iterations, and check_beam_packing of it returns an empty report, not an error.
C5_EmptyInput ==
    (Len(beams) = 0 /\ ValidArgs) =>
        /\ Returned => (data = <<>> /\ group = 0 /\ picks = <<>>)
        /\ pc # "error"
        /\ pc = "evaluated" => report = <<>>

\* ---- C6

\* C6: for nbeams > 0 and bunch > 0 iteration k picks exactly
\* min(bunch, beams left) >= 1 beams and the working list shrinks by as many; the
\* counter never passes ceil(count / bunch) <= ceil(nbeams / bunch), the loop is
\* never stopped short while beams are left, and it has run exactly
\* ceil(count / bunch) times when the function returns.
C6_Termination ==
    (ValidArgs /\ pc # "start") =>
        LET n == Len(data)
        IN  /\ Len(picks) = group
            /\ \A k \in 1..Len(picks) :
                  /\ Cardinality(picks[k]) = Min(bunch, n - PickCount(k - 1))
                  /\ Cardinality(picks[k]) >= 1
            /\ Len(work) = n - PickCount(Len(picks))
            /\ group <= CeilDiv(n, bunch)
            /\ CeilDiv(n, bunch) <= CeilDiv(nbeams, bunch)
            /\ (pc = "loop" /\ Len(work) > 0) => (group < CeilDiv(n, bunch) /\ group < MaxIter)
            /\ Returned => group = CeilDiv(n, bunch)

\* a loop that ran twice, the second time on fewer than bunch beams
C6_Witness ==
    /\ ValidArgs /\ pc = "packed"
    /\ group = 2 /\ bunch = 2 /\ Len(data) = 3
    /\ Cardinality(picks[2]) = 1

\* ---- C7

\* the terms of a totdist, in the order they are added
RECURSIVE Flatten(_)
Flatten(t) == IF t = <<>> THEN <<>> ELSE Head(t) \o Flatten(Tail(t))

\* the integer root of a square
Root(n) == CHOOSE r \in 0..n : r * r = n

\* the value of a totdist whose terms are all squares (every root is exact)
RECURSIVE Score(_)
Score(f) == IF f = <<>> THEN 0 ELSE Root(Head(f)) + Score(Tail(f))

\* the unordered pairs of distinct members of group g
Pairs(g) == {pr \in SUBSET Members(g) : Cardinality(pr) = 2}

\* the radicand of the distance between the two beams of a pair
PairDist2(pr) ==
    LET i == CHOOSE i \in pr : TRUE
        j == CHOOSE j \in pr : j # i
    IN  Dist2(data[i], data[j])

\* C7: for every group g of the packed data, info[g] carries g and a totdist made
\* of exactly one term per unordered pair of distinct members of g: k(k-1)/2 terms
\* for k members, every distance occurring as often among the terms as among the
\* pairs; a group of one member scores 0, and the six beams at x = 0..5, y = 0
\* in one group score 35.
C7_PairwiseSum ==
    pc = "evaluated" =>
        /\ \A g \in {data[i].group : i \in 1..Len(data)} :
              LET terms == Flatten(report[g + 1].totdist)
                  k == Cardinality(Members(g))
              IN  /\ report[g + 1].group = g
                  /\ 2 * Len(terms) = k * (k - 1)
                  /\ \A v \in {terms[i] : i \in 1..Len(terms)} \cup {PairDist2(pr) : pr \in Pairs(g)} :
                        Cardinality({i \in 1..Len(terms) : terms[i] = v})
                            = Cardinality({pr \in Pairs(g) : PairDist2(pr) = v})
                  /\ k <= 1 => report[g + 1].totdist = <<>>
        /\ beams = ExampleA =>
              /\ Len(report) = 1
              /\ Score(Flatten(report[1].totdist)) = 35

\* a report on a group of three beams that are not all at one distance
C7_Witness ==
    /\ pc = "evaluated"
    /\ \E g \in {data[i].group : i \in 1..Len(data)} :
          /\ Cardinality(Members(g)) = 3
          /\ Cardinality({PairDist2(pr) : pr \in Pairs(g)}) >= 2

\* ---- C8

\* C8: the report check_beam_packing returns for the packed data in one order is
\* the report it returns for the packed data in every order.
C8_OrderIndependent ==
    pc = "evaluated" =>
        \A p \in Permutations(1..Len(data)) :
            report = CheckBeamPacking(Permute(data, p))

\* a report on a group in which two beams share x and a third beam is at two
\* different distances from them
C8_Witness ==
    /\ pc = "evaluated"
    /\ \E i, j, k \in 1..Len(data) :
          /\ data[i].group = data[j].group /\ data[j].group = data[k].group
          /\ i # j /\ data[i].x = data[j].x
          /\ Dist2(data[i], data[k]) # Dist2(data[j], data[k])


\* ---- C9

\* this step is one iteration of the packing loop of a call with valid arguments
IterationStep == ValidArgs /\ pc = "loop" /\ group' = group + 1

\* the beam at place i of the working list is picked in this step
PickedNow(i) == work[i].nr \in picks'[group']

\* the radicand of the distance of the beam at place i to the anchor
AnchorDist2(i) == Dist2(work[i], work[1])

\* C9 as stated: of two beams of the working list at equal distance from the
\* anchor, the one that stands earlier in the working list is picked first.
C9_TiesByListOrder ==
    [][IterationStep =>
          \A i, j \in 1..Len(work) :
              (i < j /\ AnchorDist2(i) = AnchorDist2(j) /\ PickedNow(j)) => PickedNow(i)]_vars

\* C9 (amended): each iteration picks the first min(bunch, len(work)) beams of the
\* working list in the order of distance to the anchor ascending, beams at equal
\* distance in the order of their ids (nr) ascending, whatever their places in
\* the working list.
C9_TiesById ==
    [][IterationStep =>
          /\ Cardinality(picks'[group']) = Min(bunch, Len(work))
          /\ picks'[group'] \subseteq Nrs(work)
          /\ \A i, j \in 1..Len(work) :
                (PickedNow(j) /\ ~PickedNow(i)) =>
                    \/ AnchorDist2(j) < AnchorDist2(i)
                    \/ AnchorDist2(j) = AnchorDist2(i) /\ work[j].nr < work[i].nr]_vars

\* the first iteration has split two beams at equal distance from the anchor, and
\* the one it picked stands later in the x-sorted list but has the smaller id
C9_Witness ==
    /\ ValidArgs /\ pc = "loop" /\ group = 1
    /\ \E i, j \in 1..Len(data) :
          /\ i < j /\ data[j].nr < data[i].nr
          /\ Dist2(data[i], data[1]) = Dist2(data[j], data[1])
          /\ data[j].nr \in picks[1]
          /\ data[i].nr \notin picks[1]

\* ---- C10

\* the retained beams not picked in iterations 1..k
Remaining(k) == {i \in 1..Len(data) : data[i].nr \notin PickedUpTo(k)}

====
